---- MODULE Spec2Model ----
(***************************************************************************)
(* A state-machine model of lib/SIL/SILGen/SILGen.cpp: the SILGenModule    *)
(* emission session (symbol cache, per-function emission protocol,         *)
(* end-of-function fall-through logic, curry thunks, constructors,         *)
(* foreign-interop thunks, bridging-function cache, top-level function).   *)
(***************************************************************************)
EXTENDS Integers, Sequences, FiniteSets, TLC

\* Number of SILGenModule entry-point calls one modelled session makes.
MaxSteps == 3

(***************************************************************************)
(* The type-checked AST handed to the session (the input).                 *)
(***************************************************************************)

\* A parameter-pattern field: has a default initializer, the type of that
\* initializer is void, and the shape of the initializer expression.
Fld(init, void) == [hasInit |-> init, isVoid |-> void]
NoFld == Fld(FALSE, FALSE)
TuplePattern(fields) == [isTuple |-> TRUE, fields |-> fields]
OtherPattern == [isTuple |-> FALSE, fields |-> <<>>]

\* What walking a body leaves behind: the cleanups still pending on the
\* stack at its end and whether it ended in an explicit return.
Body(n, ret) == [cleanups |-> n, returns |-> ret]

FuncNames == {"curry3", "method", "generic", "getter", "proto", "plain"}
CtorNames == {"classCtor", "structCtor"}
PropNames == {"prop", "roProp"}
ClosureNames == {"pipe", "brace"}
ClassNames == {"C"}
SubscriptNames == {"subscript"}
StoredNames == {"imported"}

\* DeclContext chain of a declaration, innermost first, ending in its module.
DeclContexts(d) ==
  CASE d = "curry3"     -> <<"Module">>
    [] d = "plain"      -> <<"ClangModule">>
    [] d = "method"     -> <<"Type", "Module">>
    [] d = "generic"    -> <<"Local", "Module">>
    [] d = "getter"     -> <<"Type", "Module">>
    [] d = "proto"      -> <<"Type", "Module">>
    [] d = "classCtor"  -> <<"Type", "ClangModule">>
    [] d = "structCtor" -> <<"Type", "Module">>
    [] d = "prop"       -> <<"Type", "ClangModule">>
    [] d = "roProp"     -> <<"Type", "Local", "ClangModule">>
    [] d = "C"          -> <<"Module">>
    [] d = "subscript"  -> <<"Type", "ClangModule">>
    [] d = "imported"   -> <<"ClangModule">>
    [] OTHER            -> <<"Module">>

\* The class of the declaration node (isa<...>), and VarDecl::isProperty.
DeclClass(d) ==
  CASE d \in FuncNames  -> "FuncDecl"
    [] d \in CtorNames  -> "ConstructorDecl"
    [] d \in PropNames  -> "VarDecl"
    [] d \in ClassNames -> "ClassDecl"
    [] d \in SubscriptNames -> "SubscriptDecl"
    [] d \in StoredNames -> "VarDecl"
    [] OTHER            -> "None"

isProperty(d) == d \in PropNames
isSettable(d) == d = "prop"

\* FuncExpr attributes read by SILGenModule::emitFunction.
FuncExpr(d) ==
  CASE d = "curry3" ->
         [hasBody |-> TRUE, resultVoid |-> FALSE, getterOrSetter |-> FALSE,
          instanceMember |-> FALSE, polymorphic |-> FALSE, level |-> 2,
          patterns |-> <<TuplePattern(<<NoFld>>), TuplePattern(<<NoFld>>),
                         TuplePattern(<<NoFld>>)>>,
          body |-> Body(1, TRUE)]
    [] d = "plain" ->
         [hasBody |-> TRUE, resultVoid |-> TRUE, getterOrSetter |-> FALSE,
          instanceMember |-> FALSE, polymorphic |-> FALSE, level |-> 0,
          patterns |-> <<OtherPattern>>,
          body |-> Body(2, FALSE)]
    [] d = "method" ->
         [hasBody |-> TRUE, resultVoid |-> TRUE, getterOrSetter |-> FALSE,
          instanceMember |-> TRUE, polymorphic |-> FALSE, level |-> 1,
          patterns |-> <<OtherPattern,
                         TuplePattern(<<NoFld, Fld(TRUE, FALSE)>>)>>,
          body |-> Body(0, FALSE)]
    [] d = "generic" ->
         [hasBody |-> TRUE, resultVoid |-> FALSE, getterOrSetter |-> FALSE,
          instanceMember |-> FALSE, polymorphic |-> TRUE, level |-> 1,
          patterns |-> <<OtherPattern,
                         TuplePattern(<<Fld(TRUE, TRUE), NoFld,
                                        Fld(TRUE, TRUE)>>)>>,
          body |-> Body(1, FALSE)]
    [] d = "getter" ->
         [hasBody |-> TRUE, resultVoid |-> FALSE, getterOrSetter |-> TRUE,
          instanceMember |-> FALSE, polymorphic |-> FALSE, level |-> 1,
          patterns |-> <<OtherPattern, TuplePattern(<<>>)>>,
          body |-> Body(0, TRUE)]
    [] OTHER ->
         [hasBody |-> FALSE, resultVoid |-> TRUE, getterOrSetter |-> FALSE,
          instanceMember |-> TRUE, polymorphic |-> FALSE, level |-> 1,
          patterns |-> <<OtherPattern, TuplePattern(<<Fld(TRUE, FALSE)>>)>>,
          body |-> Body(0, FALSE)]

\* ConstructorDecl attributes read by SILGenModule::emitConstructor.
Ctor(d) ==
  IF d = "classCtor"
    THEN [isClass |-> TRUE,
          arguments |-> <<TuplePattern(<<NoFld, Fld(TRUE, FALSE)>>)>>,
          body |-> Body(1, FALSE), initBody |-> Body(0, TRUE)]
    ELSE [isClass |-> FALSE,
          arguments |-> <<TuplePattern(<<NoFld>>)>>,
          body |-> Body(1, FALSE), initBody |-> Body(0, TRUE)]

\* Closure attributes: both closures declare a void result and fall through.
Closure(d) == [resultVoid |-> TRUE, body |-> Body(1, FALSE)]

\* The body walked for a default-argument initializer, a destructor and
\* the forwarding thunks.
GeneratorBody(arg) == Body(0, ~arg.isVoid)
DestructorBody == Body(1, FALSE)
ThunkBody == Body(0, TRUE)
ObjCThunkBody(d) == IF d = "roProp" THEN Body(1, FALSE) ELSE Body(0, TRUE)

(***************************************************************************)
(* SILDeclRef: the cache key.                                              *)
(***************************************************************************)
MkRef(loc, kind, level, objc, idx) ==
  [loc |-> loc, kind |-> kind, uncurryLevel |-> level, isObjC |-> objc,
   defaultArgIndex |-> idx]

NaturalLevel(d) == IF d \in FuncNames THEN FuncExpr(d).level ELSE 0

\* SILDeclRef(decl): the reference at the natural uncurry level.
SILDeclRef(d) ==
  MkRef(d, IF d \in CtorNames THEN "Allocator" ELSE "Func",
        NaturalLevel(d), FALSE, 0)
SILDeclRefKind(d, kind) == MkRef(d, kind, 0, FALSE, 0)
SILDeclRefObjC(d, kind) == MkRef(d, kind, NaturalLevel(d), TRUE, 0)
atUncurryLevel(c, level) == [c EXCEPT !.uncurryLevel = level]
getDefaultArgGenerator(d, index) ==
  MkRef(d, "DefaultArgGenerator", 0, FALSE, index)
hasDecl(c) == c.loc \notin ClosureNames

NoRef == MkRef("none", "None", 0, FALSE, 0)
TopLevelName == MkRef("top_level_code", "TopLevel", 0, FALSE, 0)

\* The references callers ask getFunction/hasFunction about.
CallRefs ==
  {atUncurryLevel(SILDeclRef("curry3"), 1), SILDeclRef("classCtor"),
   SILDeclRef("brace"), SILDeclRefKind("classCtor", "Initializer"),
   SILDeclRefObjC("method", "Func"), SILDeclRefObjC("prop", "Getter"),
   SILDeclRefObjC("prop", "Setter")}

VARIABLES
  functions,         \* M: the module's functions, in creation order
  emittedFunctions,  \* SILGenModule::emittedFunctions: reference -> function
  TopLevelSGF,       \* the emission context of top_level_code
  aborted,           \* "" while the process runs, else why it ended
  moduleVerified,    \* ~SILGenModule ran M.verify(): the module is handed on
  globals,           \* M.globals
  bridging,          \* the four Optional<SILDeclRef> bridging cache slots
  lookups,           \* per slot, how often name lookup ran
  requests,          \* per slot, how often its getter was called
  lowered,           \* the references postEmitFunction finished, in order
  diagnostic,        \* the last diagnostic SGM.diagnose emitted
  result,            \* what the last call returned
  lastCall,          \* the last call and its argument
  steps,             \* calls made so far
  found,             \* what the last name lookup that ran returned
  tu,                \* constructSIL's arguments: the translation unit
  pc,                \* constructSIL's position in its two loops
  visited            \* the declarations constructSIL dispatched, in order

vars == <<functions, emittedFunctions, TopLevelSGF, aborted, moduleVerified,
          globals, bridging, lookups, requests, lowered, diagnostic, result,
          lastCall, steps, found, tu, pc, visited>>

\* constructSIL's own state.
driverVars == <<tu, pc, visited>>

(***************************************************************************)
(* SILFunction and SILGenFunction.                                         *)
(***************************************************************************)
Inst(op, arg) == [op |-> op, arg |-> arg]
Terminators == {"return", "unreachable"}

\* new (M) SILFunction(M, linkage, name, type): a declaration, no blocks.
SILFunction(name, linkage) ==
  [name |-> name, linkage |-> linkage, blocks |-> <<>>,
   debugScope |-> "none", location |-> "none", verified |-> FALSE]

\* SILGenFunction::SILGenFunction: a builder positioned in a fresh block.
SILGenFunction(hasVoidReturn) ==
  [insts |-> <<>>, valid |-> TRUE, Cleanups |-> <<>>,
   hasVoidReturn |-> hasVoidReturn, epilogBB |-> FALSE, failed |-> ""]

\* SILBuilder: append at the insertion point; a terminator invalidates it.
\* A terminator records in arg the cleanup-stack depth at its insertion.
insert(sgf, inst) ==
  IF ~sgf.valid
    THEN [sgf EXCEPT !.failed = "no valid insertion point"]
    ELSE [sgf EXCEPT !.insts = Append(@, inst),
                     !.valid = inst.op \notin Terminators]

pushCleanup(sgf) ==
  [sgf EXCEPT !.Cleanups = Append(@, Len(@) + 1)]

\* CleanupManager: emit the top cleanup and pop it, down to an empty stack.
RECURSIVE popAndEmit(_)
popAndEmit(sgf) ==
  IF sgf.Cleanups = <<>> THEN sgf
  ELSE LET n == Len(sgf.Cleanups)
       IN popAndEmit([insert(sgf, Inst("cleanup", sgf.Cleanups[n]))
                        EXCEPT !.Cleanups = SubSeq(sgf.Cleanups, 1, n - 1)])

\* Cleanups.emitReturnAndCleanups(loc, value).
emitReturnAndCleanups(sgf) ==
  LET unwound == popAndEmit(sgf)
  IN insert(unwound, Inst("return", Len(unwound.Cleanups)))

emitEmptyTuple(sgf) == insert(sgf, Inst("tuple", 0))

RECURSIVE pushCleanups(_, _)
pushCleanups(sgf, n) ==
  IF n = 0 THEN sgf ELSE pushCleanups(pushCleanup(sgf), n - 1)

\* SILGenFunction::emitFunction/emitClosure/emit...Thunk/...: walk the body.
\* fwd is the uncurry level a thunk forwards to (-1: not a thunk).
walkBody(sgf, body, fwd) ==
  LET entered == pushCleanups(insert(sgf, Inst("body", fwd)), body.cleanups)
  IN IF body.returns THEN emitReturnAndCleanups(entered) ELSE entered

\* ~SILGenFunction taking the `unreachable` path for a void result and
\* the return path otherwise (the hasVoidReturn test inverted).
DestroyInverted(sgf) ==
  IF ~sgf.valid THEN sgf
  ELSE IF ~sgf.hasVoidReturn
    THEN emitReturnAndCleanups(emitEmptyTuple(sgf))
    ELSE insert(sgf, Inst("unreachable", Len(sgf.Cleanups)))

\* ~SILGenFunction synthesizing the return whatever hasVoidReturn says.
DestroyAlwaysReturns(sgf) ==
  IF ~sgf.valid THEN sgf
  ELSE emitReturnAndCleanups(emitEmptyTuple(sgf))

\* ~SILGenFunction creating the return directly, without the cleanups.
DestroyWithoutCleanups(sgf) ==
  IF ~sgf.valid THEN sgf
  ELSE IF sgf.hasVoidReturn
    THEN insert(emitEmptyTuple(sgf), Inst("return", Len(sgf.Cleanups)))
    ELSE insert(sgf, Inst("unreachable", Len(sgf.Cleanups)))

\* SILGenFunction::~SILGenFunction: falling off the end of the function.
DestroySILGenFunction(sgf) ==
  IF ~sgf.valid THEN sgf
  ELSE IF sgf.hasVoidReturn
    THEN IF sgf.epilogBB
           THEN [sgf EXCEPT !.failed = "epilog bb not terminated?!"]
           ELSE emitReturnAndCleanups(emitEmptyTuple(sgf))
    ELSE insert(sgf, Inst("unreachable", Len(sgf.Cleanups)))

(***************************************************************************)
(* The session state the handlers thread through: M's functions, the cache *)
(* and the abort flag.  A handler reached after an abort does nothing: the *)
(* process is gone.                                                        *)
(***************************************************************************)
Session == [functions |-> functions, emittedFunctions |-> emittedFunctions,
            aborted |-> aborted, lowered |-> lowered]

abort(s, why) == [s EXCEPT !.aborted = why]

\* getConstantLinkage looking at the module before the enclosing contexts.
getConstantLinkageForeignFirst(constant) ==
  IF ~hasDecl(constant) THEN "Internal"
  ELSE LET d == constant.loc
           dcs == DeclContexts(d)
       IN IF dcs[Len(dcs)] = "ClangModule"
             /\ (DeclClass(d) = "ConstructorDecl"
                 \/ DeclClass(d) = "SubscriptDecl"
                 \/ (DeclClass(d) = "VarDecl" /\ isProperty(d)))
            THEN "ClangThunk"
            ELSE IF \E i \in 1..Len(dcs) : dcs[i] = "Local"
              THEN "Internal" ELSE "External"

\* SILGenModule::getConstantLinkage.
RECURSIVE walkContexts(_, _)
walkContexts(dcs, i) ==
  IF dcs[i] \in {"Module", "ClangModule"} THEN dcs[i]
  ELSE IF dcs[i] = "Local" THEN "Local"
  ELSE walkContexts(dcs, i + 1)

getConstantLinkage(constant) ==
  IF ~hasDecl(constant) THEN "Internal"
  ELSE LET d == constant.loc
           dc == walkContexts(DeclContexts(d), 1)
       IN IF dc = "Local" THEN "Internal"
          ELSE IF dc = "ClangModule"
                  /\ (DeclClass(d) = "ConstructorDecl"
                      \/ DeclClass(d) = "SubscriptDecl"
                      \/ (DeclClass(d) = "VarDecl" /\ isProperty(d)))
            THEN "ClangThunk"
            ELSE "External"

\* mangleConstant: the mangled name identifies the reference.
mangleConstant(constant) == constant

\* SILGenModule::hasFunction.
hasFunction(s, constant) == constant \in DOMAIN s.emittedFunctions

\* getFunction without the cache lookup: every call creates a function.
getFunctionUncached(s, constant) ==
  LET F == SILFunction(mangleConstant(constant),
                       getConstantLinkage(constant))
  IN [s EXCEPT !.functions = Append(@, F),
               !.emittedFunctions =
                  (constant :> (Len(s.functions) + 1)) @@ @]

\* SILGenModule::getFunction: the state after the call; the function it
\* returns is emittedFunctions[constant] of that state.
getFunction(s, constant) ==
  IF constant \in DOMAIN s.emittedFunctions THEN s
  ELSE LET F == SILFunction(mangleConstant(constant),
                            getConstantLinkage(constant))
       IN [s EXCEPT !.functions = Append(@, F),
                    !.emittedFunctions =
                       (constant :> (Len(s.functions) + 1)) @@ @]

\* preEmitFunction without the "already emitted function?!" assertion.
preEmitFunctionUnchecked(s, constant, astNode) ==
  IF s.aborted # "" THEN s
  ELSE LET s1 == getFunction(s, constant)
           f == s1.emittedFunctions[constant]
       IN [s1 EXCEPT !.functions[f].debugScope = astNode,
                     !.functions[f].location = astNode]

\* SILGenModule::preEmitFunction.
preEmitFunction(s, constant, astNode) ==
  IF s.aborted # "" THEN s
  ELSE LET s1 == getFunction(s, constant)
           f == s1.emittedFunctions[constant]
       IN IF s1.functions[f].blocks # <<>>
            THEN abort(s1, "already emitted function?!")
            ELSE [s1 EXCEPT !.functions[f].debugScope = astNode,
                            !.functions[f].location = astNode]

\* SILFunction::verify: every block ends in its only terminator.
verify(F) ==
  \A b \in 1..Len(F.blocks) :
    LET insts == F.blocks[b]
    IN /\ insts # <<>>
       /\ insts[Len(insts)].op \in Terminators
       /\ \A i \in 1..(Len(insts) - 1) : insts[i].op \notin Terminators

\* SILGenModule::postEmitFunction.
postEmitFunction(s, constant) ==
  IF s.aborted # "" THEN s
  ELSE LET f == s.emittedFunctions[constant]
       IN IF s.functions[f].blocks = <<>>
            THEN abort(s, "did not emit any function body?!")
            ELSE IF ~verify(s.functions[f])
              THEN abort(s, "verification failed")
              ELSE [s EXCEPT !.functions[f].verified = TRUE,
                             !.lowered = Append(@, constant)]

\* The body handed to postEmitFunction while the SILGenFunction is still
\* alive: the fall-through logic of its destructor has not run.
emitBodyUnfinished(s, constant, hasVoidReturn, body, fwd) ==
  IF s.aborted # "" THEN s
  ELSE LET f == s.emittedFunctions[constant]
           sgf == walkBody(SILGenFunction(hasVoidReturn), body, fwd)
       IN [s EXCEPT !.functions[f].blocks = Append(@, sgf.insts)]

\* SILGenFunction(*this, *f, hasVoidReturn).emit...(...), through the
\* temporary's destructor: the block lands in f.
emitBody(s, constant, hasVoidReturn, body, fwd) ==
  IF s.aborted # "" THEN s
  ELSE LET f == s.emittedFunctions[constant]
           sgf == DestroySILGenFunction(
                    walkBody(SILGenFunction(hasVoidReturn), body, fwd))
           s1 == [s EXCEPT !.functions[f].blocks = Append(@, sgf.insts)]
       IN IF sgf.failed # "" THEN abort(s1, sgf.failed) ELSE s1

\* SILGenModule::emitDefaultArgGenerator.
emitDefaultArgGenerator(s, constant, arg) ==
  postEmitFunction(
    emitBody(preEmitFunction(s, constant, "defaultArg"), constant,
             arg.isVoid, GeneratorBody(arg), -1),
    constant)

\* SILGenModule::emitDefaultArgGenerators: the inner loop over a tuple
\* pattern's fields, then the outer loop over the patterns.  Each returns
\* the session and the index reached.
RECURSIVE generatorsOfFields(_, _, _, _, _)
generatorsOfFields(s, decl, fields, i, index) ==
  IF i > Len(fields) THEN [s |-> s, index |-> index]
  ELSE generatorsOfFields(
         IF fields[i].hasInit
           THEN emitDefaultArgGenerator(
                  s, getDefaultArgGenerator(decl, index), fields[i])
           ELSE s,
         decl, fields, i + 1, index + 1)

\* The outer loop giving no index to a pattern that is not a tuple.
RECURSIVE generatorsOfPatternsSkipping(_, _, _, _, _)
generatorsOfPatternsSkipping(s, decl, patterns, p, index) ==
  IF p > Len(patterns) THEN s
  ELSE IF ~patterns[p].isTuple
    THEN generatorsOfPatternsSkipping(s, decl, patterns, p + 1, index)
    ELSE LET r == generatorsOfFields(s, decl, patterns[p].fields, 1, index)
         IN generatorsOfPatternsSkipping(r.s, decl, patterns, p + 1, r.index)

RECURSIVE generatorsOfPatterns(_, _, _, _, _)
generatorsOfPatterns(s, decl, patterns, p, index) ==
  IF p > Len(patterns) THEN s
  ELSE IF ~patterns[p].isTuple
    THEN generatorsOfPatterns(s, decl, patterns, p + 1, index + 1)
    ELSE LET r == generatorsOfFields(s, decl, patterns[p].fields, 1, index)
         IN generatorsOfPatterns(r.s, decl, patterns, p + 1, r.index)

emitDefaultArgGenerators(s, decl, patterns) ==
  generatorsOfPatterns(s, decl, patterns, 1, 0)

\* SILGenModule::emitCurryThunk.
emitCurryThunk(s, entryPoint, nextEntryPoint, fe) ==
  postEmitFunction(
    emitBody(preEmitFunction(s, entryPoint, fe), entryPoint,
             FuncExpr(fe).resultVoid, ThunkBody, nextEntryPoint.uncurryLevel),
    entryPoint)

\* The curry-thunk loop stopping one level early: while (--level > 0).
RECURSIVE curryThunksShort(_, _, _, _)
curryThunksShort(s, constant, fe, level) ==
  IF ~(level - 1 > 0) THEN s
  ELSE LET curryConstant == atUncurryLevel(constant, level - 1)
       IN curryThunksShort(emitCurryThunk(s, curryConstant, constant, fe),
                           curryConstant, fe, level - 1)

\* The curry-thunk loop of emitFunction: while (level-- > 0).
RECURSIVE curryThunks(_, _, _, _)
curryThunks(s, constant, fe, level) ==
  IF ~(level > 0) THEN s
  ELSE LET curryConstant == atUncurryLevel(constant, level - 1)
       IN curryThunks(emitCurryThunk(s, curryConstant, constant, fe),
                      curryConstant, fe, level - 1)

\* ArrayRef::slice(1).
slice1(patterns) == SubSeq(patterns, 2, Len(patterns))

\* emitFunction without the accessor, instance-member and generic tests.
emitFunctionAlwaysThunks(s, decl) ==
  LET fe == FuncExpr(decl)
      patterns == IF DeclContexts(decl)[1] = "Type"
                    THEN slice1(fe.patterns) ELSE fe.patterns
      s1 == emitDefaultArgGenerators(s, decl, patterns)
      constant == SILDeclRef(decl)
      s2 == postEmitFunction(
              emitBody(preEmitFunction(s1, constant, decl), constant,
                       fe.resultVoid, fe.body, -1),
              constant)
  IN IF ~fe.hasBody THEN s1
     ELSE curryThunks(s2, constant, decl, constant.uncurryLevel)

\* SILGenModule::emitFunction (visitFuncDecl).
emitFunction(s, decl) ==
  LET fe == FuncExpr(decl)
      patterns == IF DeclContexts(decl)[1] = "Type"
                    THEN slice1(fe.patterns) ELSE fe.patterns
      s1 == emitDefaultArgGenerators(s, decl, patterns)
      constant == SILDeclRef(decl)
      s2 == postEmitFunction(
              emitBody(preEmitFunction(s1, constant, decl), constant,
                       fe.resultVoid, fe.body, -1),
              constant)
  IN IF ~fe.hasBody THEN s1
     ELSE IF fe.getterOrSetter THEN s2
     ELSE IF fe.instanceMember THEN s2
     ELSE IF fe.polymorphic THEN s2
     ELSE curryThunks(s2, constant, decl, constant.uncurryLevel)

\* emitConstructor taking every constructor for a value-type constructor.
emitConstructorSingle(s, decl) ==
  LET s1 == emitDefaultArgGenerators(s, decl, Ctor(decl).arguments)
      constant == SILDeclRef(decl)
      s2 == preEmitFunction(s1, constant, decl)
  IN postEmitFunction(
       emitBody(s2, constant, TRUE, Ctor(decl).body, -1), constant)

\* emitConstructor emitting the default-argument generators last.
emitConstructorGeneratorsLast(s, decl) ==
  LET constant == SILDeclRef(decl)
      s2 == preEmitFunction(s, constant, decl)
      initConstant == SILDeclRefKind(decl, "Initializer")
      s3 == postEmitFunction(
              emitBody(s2, constant, TRUE, Ctor(decl).body, -1), constant)
      s4 == IF Ctor(decl).isClass
              THEN postEmitFunction(
                     emitBody(preEmitFunction(s3, initConstant, decl),
                              initConstant, TRUE, Ctor(decl).initBody, -1),
                     initConstant)
              ELSE s3
  IN emitDefaultArgGenerators(s4, decl, Ctor(decl).arguments)

\* SILGenModule::emitConstructor.
emitConstructor(s, decl) ==
  LET s1 == emitDefaultArgGenerators(s, decl, Ctor(decl).arguments)
      constant == SILDeclRef(decl)
      s2 == preEmitFunction(s1, constant, decl)
      initConstant == SILDeclRefKind(decl, "Initializer")
  IN IF Ctor(decl).isClass
       THEN LET s3 == postEmitFunction(
                        emitBody(s2, constant, TRUE, Ctor(decl).body, -1),
                        constant)
            IN postEmitFunction(
                 emitBody(preEmitFunction(s3, initConstant, decl),
                          initConstant, TRUE, Ctor(decl).initBody, -1),
                 initConstant)
       ELSE postEmitFunction(
              emitBody(s2, constant, TRUE, Ctor(decl).body, -1), constant)

\* SILGenModule::emitClosure(PipeClosureExpr*).
emitClosurePipe(s, ce) ==
  LET constant == SILDeclRef(ce)
  IN postEmitFunction(
       emitBody(preEmitFunction(s, constant, ce), constant,
                Closure(ce).resultVoid, Closure(ce).body, -1),
       constant)

\* SILGenModule::emitClosure(ClosureExpr*).
emitClosure(s, ce) ==
  LET constant == SILDeclRef(ce)
  IN postEmitFunction(
       emitBody(preEmitFunction(s, constant, ce), constant,
                FALSE, Closure(ce).body, -1),
       constant)

\* SILGenModule::emitDestructor.
emitDestructor(s, cd) ==
  LET destroyer == SILDeclRefKind(cd, "Destroyer")
  IN postEmitFunction(
       emitBody(preEmitFunction(s, destroyer, "destructor"), destroyer,
                TRUE, DestructorBody, -1),
       destroyer)

\* SILGenModule::emitObjCMethodThunk.
emitObjCMethodThunk(s, method) ==
  LET thunk == SILDeclRefObjC(method, "Func")
  IN IF hasFunction(s, thunk) THEN s
     ELSE postEmitFunction(
            emitBody(preEmitFunction(s, thunk, method), thunk,
                     FALSE, ObjCThunkBody(method), -1),
            thunk)

\* SILGenModule::emitObjCPropertyMethodThunks.
emitObjCPropertyMethodThunks(s, prop) ==
  LET getter == SILDeclRefObjC(prop, "Getter")
      setter == SILDeclRefObjC(prop, "Setter")
      s1 == postEmitFunction(
              emitBody(preEmitFunction(s, getter, prop), getter,
                       FALSE, ObjCThunkBody(prop), -1),
              getter)
  IN IF hasFunction(s, getter) THEN s
     ELSE IF ~isSettable(prop) THEN s1
     ELSE postEmitFunction(
            emitBody(preEmitFunction(s1, setter, prop), setter,
                     FALSE, ObjCThunkBody(prop), -1),
            setter)

(***************************************************************************)
(* Bridging functions.                                                     *)
(***************************************************************************)
Slots == {"NSStringToStringFn", "StringToNSStringFn", "BoolToObjCBoolFn",
          "ObjCBoolToBoolFn"}

\* What UnqualifiedLookup::forModuleAndName finds in the foreign module.
Found(module, n, valueDecl, func, inputs, output) ==
  [module |-> module, results |-> n, hasValueDecl |-> valueDecl,
   isFuncDecl |-> func, inputTypes |-> inputs, resultType |-> output]

Lookups(inputTypes, outputType) ==
  {Found(FALSE, 0, FALSE, FALSE, <<>>, "none"),
   Found(TRUE, 0, FALSE, FALSE, <<>>, "none"),
   Found(TRUE, 2, TRUE, TRUE, inputTypes, outputType),
   Found(TRUE, 2, FALSE, FALSE, <<>>, "none"),
   Found(TRUE, 1, FALSE, FALSE, <<>>, "none"),
   Found(TRUE, 1, TRUE, FALSE, <<>>, "none"),
   Found(TRUE, 1, TRUE, TRUE, inputTypes, outputType),
   Found(TRUE, 1, TRUE, TRUE, Append(inputTypes, "Bool"), outputType),
   Found(TRUE, 1, TRUE, TRUE, [i \in 1..Len(inputTypes) |-> "Other"],
         outputType),
   Found(TRUE, 1, TRUE, TRUE, inputTypes, "Other")}

\* std::equal over the found function's input types.
equalTypes(have, expected) ==
  \A i \in 1..Len(have) : have[i] = expected[i]

Diag(id, moduleName, functionName) ==
  [id |-> id, moduleName |-> moduleName, functionName |-> functionName]
NoDiag == Diag("", "", "")
NoLookup == Found(FALSE, 0, FALSE, FALSE, <<>>, "no lookup")

\* The lambda of getBridgingFn without its result-type comparison.
lookupFailureInputsOnly(lookup, inputTypes, outputType) ==
  IF ~lookup.module THEN "bridging_module_missing"
  ELSE IF lookup.results = 0 THEN "bridging_function_missing"
  ELSE IF lookup.results > 1 THEN "bridging_function_overloaded"
  ELSE IF ~lookup.hasValueDecl THEN "bridging_function_not_function"
  ELSE IF ~lookup.isFuncDecl THEN "bridging_function_not_function"
  ELSE IF Len(lookup.inputTypes) # Len(inputTypes)
          \/ ~equalTypes(lookup.inputTypes, inputTypes)
    THEN "bridging_function_not_correct_type"
  ELSE ""

\* The lambda of getBridgingFn: the diagnostic it exits with, or "".
lookupFailure(lookup, inputTypes, outputType) ==
  IF ~lookup.module THEN "bridging_module_missing"
  ELSE IF lookup.results = 0 THEN "bridging_function_missing"
  ELSE IF lookup.results > 1 THEN "bridging_function_overloaded"
  ELSE IF ~lookup.hasValueDecl THEN "bridging_function_not_function"
  ELSE IF ~lookup.isFuncDecl THEN "bridging_function_not_function"
  ELSE IF Len(lookup.inputTypes) # Len(inputTypes)
          \/ ~equalTypes(lookup.inputTypes, inputTypes)
    THEN "bridging_function_not_correct_type"
  ELSE IF lookup.resultType # outputType
    THEN "bridging_function_not_correct_type"
  ELSE ""

\* The bridging state getBridgingFn reads and writes.
Bridge == [bridging |-> bridging, lookups |-> lookups, aborted |-> aborted,
           diagnostic |-> diagnostic, fn |-> NoRef, found |-> found]

\* getBridgingFn running the lookup on every request.
getBridgingFnUncached(b, cacheSlot, moduleName, functionName, inputTypes, outputType, lookup) ==
  LET failure == lookupFailure(lookup, inputTypes, outputType)
      c == SILDeclRef(functionName)
      looked == [b EXCEPT !.lookups[cacheSlot] = @ + 1, !.found = lookup]
  IN IF failure # ""
       THEN [looked EXCEPT
               !.aborted = "exit(1)",
               !.diagnostic = Diag(failure, moduleName, functionName)]
       ELSE [looked EXCEPT !.bridging[cacheSlot] = c, !.fn = c]

\* getBridgingFn: cacheSlot.cache(lambda), then return fn.
getBridgingFn(b, cacheSlot, moduleName, functionName, inputTypes, outputType, lookup) ==
  IF b.bridging[cacheSlot] # NoRef
    THEN [b EXCEPT !.fn = b.bridging[cacheSlot]]
    ELSE LET failure == lookupFailure(lookup, inputTypes, outputType)
             c == SILDeclRef(functionName)
             looked == [b EXCEPT !.lookups[cacheSlot] = @ + 1, !.found = lookup]
         IN IF failure # ""
              THEN [looked EXCEPT
                      !.aborted = "exit(1)",
                      !.diagnostic = Diag(failure, moduleName, functionName)]
              ELSE [looked EXCEPT !.bridging[cacheSlot] = c, !.fn = c]

\* The module, function and signature each getter asks for.
getNSStringToStringFn(b, lookup) ==
  getBridgingFn(b, "NSStringToStringFn", "Foundation",
                "convertNSStringToString", <<"NSString", "ByrefString">>,
                "EmptyTuple", lookup)
getStringToNSStringFn(b, lookup) ==
  getBridgingFn(b, "StringToNSStringFn", "Foundation",
                "convertStringToNSString", <<"ByrefString">>, "NSString",
                lookup)
getBoolToObjCBoolFn(b, lookup) ==
  getBridgingFn(b, "BoolToObjCBoolFn", "ObjectiveC",
                "convertBoolToObjCBool", <<"Bool">>, "ObjCBool", lookup)
getObjCBoolToBoolFn(b, lookup) ==
  getBridgingFn(b, "ObjCBoolToBoolFn", "ObjectiveC",
                "convertObjCBoolToBool", <<"ObjCBool">>, "Bool", lookup)

SlotInputs(slot) ==
  CASE slot = "NSStringToStringFn" -> <<"NSString", "ByrefString">>
    [] slot = "StringToNSStringFn" -> <<"ByrefString">>
    [] slot = "BoolToObjCBoolFn"   -> <<"Bool">>
    [] OTHER                       -> <<"ObjCBool">>
SlotOutput(slot) ==
  CASE slot = "NSStringToStringFn" -> "EmptyTuple"
    [] slot = "StringToNSStringFn" -> "NSString"
    [] slot = "BoolToObjCBoolFn"   -> "ObjCBool"
    [] OTHER                       -> "Bool"

getSlotFn(b, slot, lookup) ==
  CASE slot = "NSStringToStringFn" -> getNSStringToStringFn(b, lookup)
    [] slot = "StringToNSStringFn" -> getStringToNSStringFn(b, lookup)
    [] slot = "BoolToObjCBoolFn"   -> getBoolToObjCBoolFn(b, lookup)
    [] OTHER                       -> getObjCBoolToBoolFn(b, lookup)

(***************************************************************************)
(* The top-level function and the module-level visitors.                   *)
(***************************************************************************)
PatternBindings == {"a", "b", "never"}
VarDecls == {"prop", "global"}

\* A top-level pattern binding: its number, the cleanups its initializer
\* leaves pending, and whether its initializer ends the block.
PatternBindingDecl(pd) ==
  CASE pd = "a" -> [id |-> 1, cleanups |-> 1, terminates |-> FALSE]
    [] pd = "b" -> [id |-> 2, cleanups |-> 0, terminates |-> FALSE]
    [] OTHER    -> [id |-> 3, cleanups |-> 0, terminates |-> TRUE]

\* emitTopLevelFunction creating an externally visible function.
emitTopLevelFunctionExternal ==
  [SILFunction(TopLevelName, "External") EXCEPT !.debugScope = "void"]

\* SILGenModule::emitTopLevelFunction, with the debug scope the
\* constructor assigns.
emitTopLevelFunction ==
  [SILFunction(TopLevelName, "Internal") EXCEPT !.debugScope = "void"]

\* TopLevelSGF->visit(pd): emit the initializer at the insertion point.
visitInTopLevel(sgf, pd) ==
  LET emitted == pushCleanups(
                   insert(sgf, Inst("init", PatternBindingDecl(pd).id)),
                   PatternBindingDecl(pd).cleanups)
  IN IF PatternBindingDecl(pd).terminates
       THEN insert(emitted, Inst("unreachable", Len(emitted.Cleanups)))
       ELSE emitted

\* visitPatternBindingDecl without the insertion-point test.
visitPatternBindingDeclUnguarded(tl, pd) ==
  IF tl.live THEN [tl EXCEPT !.sgf = visitInTopLevel(tl.sgf, pd)] ELSE tl

\* SILGenModule::visitPatternBindingDecl: the context after the call.
visitPatternBindingDecl(tl, pd) ==
  IF tl.live
    THEN IF ~tl.sgf.valid THEN tl
         ELSE [tl EXCEPT !.sgf = visitInTopLevel(tl.sgf, pd)]
    ELSE tl

\* SILGenModule::visitVarDecl / addGlobalVariable.
visitVarDecl(gs, vd) == IF ~isProperty(vd) THEN gs \cup {vd} ELSE gs

\* SILModule::verify: every function that has a body is well formed.
verifyModule(fs) == \A f \in 1..Len(fs) : verify(fs[f])

NoResult == [fn |-> 0, has |-> FALSE, ref |-> NoRef]
Call(op, decl, ref) == [op |-> op, decl |-> decl, ref |-> ref]

\* The translation unit constructSIL is called on: tu->Decls, startElem and
\* the ASTContext's ExternalDefinitions.
MaxDecls == 2
TopDecls == {"curry3", "a", "never", "global"}
ExternalLists == {<<>>, <<"plain">>, <<"classCtor", "plain">>}
TranslationUnit(decls, startElem, defs) ==
  [Decls |-> decls, startElem |-> startElem, ExternalDefinitions |-> defs]
NoUnit == TranslationUnit(<<>>, 0, <<>>)
Units ==
  {TranslationUnit(decls, startElem, defs) :
     decls \in UNION {[1..n -> TopDecls] : n \in 0..MaxDecls},
     startElem \in 0..MaxDecls, defs \in ExternalLists}

\* SILGenModule sgm(*m): the state after construction.
InitModule ==
  /\ functions = <<[emitTopLevelFunction EXCEPT !.blocks = << <<>> >>]>>
  /\ emittedFunctions = [c \in {} |-> 0]
  /\ TopLevelSGF = [live |-> TRUE, sgf |-> SILGenFunction(TRUE)]
  /\ aborted = ""
  /\ moduleVerified = FALSE
  /\ globals = {}
  /\ bridging = [slot \in Slots |-> NoRef]
  /\ lookups = [slot \in Slots |-> 0]
  /\ requests = [slot \in Slots |-> 0]
  /\ lowered = <<>>
  /\ diagnostic = NoDiag
  /\ result = NoResult
  /\ lastCall = Call("SILGenModule", "", NoRef)
  /\ steps = 0
  /\ found = NoLookup
  /\ visited = <<>>
  /\ pc = [i |-> 0, j |-> 0, returned |-> FALSE]

\* A session whose calls come from any caller, in any order.
Init == InitModule /\ tu = NoUnit

\* The process has neither exited nor destroyed the SILGenModule.
AliveAfterExit == TopLevelSGF.live

\* The process is alive and the SILGenModule exists.
Alive == aborted = "" /\ TopLevelSGF.live

\* The session is running: constructed, not aborted, not yet destroyed.
Running == aborted = "" /\ TopLevelSGF.live /\ steps < MaxSteps

\* The state a handler over the session leaves.
Commit(after, call, ret) ==
  \E s \in {after} :
  /\ functions' = s.functions
  /\ emittedFunctions' = s.emittedFunctions
  /\ aborted' = s.aborted
  /\ lowered' = s.lowered
  /\ lastCall' = call
  /\ result' = ret
  /\ steps' = steps + 1
  /\ UNCHANGED <<TopLevelSGF, moduleVerified, globals, bridging, lookups,
                 requests, diagnostic, found, driverVars>>

GetFunction ==
  \E constant \in CallRefs :
    /\ Running
    /\ \E s \in {getFunction(Session, constant)} :
         Commit(s, Call("getFunction", "", constant),
                [NoResult EXCEPT !.fn = s.emittedFunctions[constant]])

HasFunction ==
  \E constant \in CallRefs :
    /\ Running
    /\ Commit(Session, Call("hasFunction", "", constant),
              [NoResult EXCEPT !.has = hasFunction(Session, constant)])

EmitFunction ==
  \E decl \in FuncNames :
    /\ Running
    /\ Commit(emitFunction(Session, decl), Call("emitFunction", decl, NoRef),
              NoResult)

EmitConstructor ==
  \E decl \in CtorNames :
    /\ Running
    /\ Commit(emitConstructor(Session, decl),
              Call("emitConstructor", decl, NoRef), NoResult)

EmitClosurePipe ==
  /\ Running
  /\ Commit(emitClosurePipe(Session, "pipe"),
            Call("emitClosurePipe", "pipe", NoRef), NoResult)

EmitClosure ==
  /\ Running
  /\ Commit(emitClosure(Session, "brace"),
            Call("emitClosure", "brace", NoRef), NoResult)

EmitDestructor ==
  \E cd \in ClassNames :
    /\ Running
    /\ Commit(emitDestructor(Session, cd), Call("emitDestructor", cd, NoRef),
              NoResult)

EmitObjCMethodThunk ==
  /\ Running
  /\ Commit(emitObjCMethodThunk(Session, "method"),
            Call("emitObjCMethodThunk", "method", NoRef), NoResult)

EmitObjCPropertyMethodThunks ==
  \E prop \in PropNames :
    /\ Running
    /\ Commit(emitObjCPropertyMethodThunks(Session, prop),
              Call("emitObjCPropertyMethodThunks", prop, NoRef), NoResult)

VisitPatternBindingDecl ==
  \E pd \in PatternBindings :
    /\ Running
    /\ \E tl \in {visitPatternBindingDecl(TopLevelSGF, pd)} :
          /\ TopLevelSGF' = tl
          /\ functions' = [functions EXCEPT ![1].blocks = <<tl.sgf.insts>>]
    /\ lastCall' = Call("visitPatternBindingDecl", pd, NoRef)
    /\ result' = NoResult
    /\ steps' = steps + 1
    /\ UNCHANGED <<emittedFunctions, aborted, moduleVerified, globals,
                   bridging, lookups, requests, lowered, diagnostic, found,
                   driverVars>>

VisitVarDecl ==
  \E vd \in VarDecls :
    /\ Running
    /\ globals' = visitVarDecl(globals, vd)
    /\ lastCall' = Call("visitVarDecl", vd, NoRef)
    /\ result' = NoResult
    /\ steps' = steps + 1
    /\ UNCHANGED <<functions, emittedFunctions, TopLevelSGF, aborted,
                   moduleVerified, bridging, lookups, requests, lowered,
                   diagnostic, found, driverVars>>

\* A call of the getter of one slot, the lookup finding what it finds.
BridgingRequest(slot, lookup) ==
  /\ \E b \in {getSlotFn(Bridge, slot, lookup)} :
        /\ bridging' = b.bridging
        /\ lookups' = b.lookups
        /\ aborted' = b.aborted
        /\ diagnostic' = b.diagnostic
        /\ found' = b.found
        /\ result' = [NoResult EXCEPT !.ref = b.fn]
  /\ requests' = [requests EXCEPT ![slot] = @ + 1]
  /\ lastCall' = Call("getBridgingFn", slot, NoRef)
  /\ steps' = steps + 1
  /\ UNCHANGED <<functions, emittedFunctions, TopLevelSGF, moduleVerified,
                 globals, lowered, driverVars>>

GetBridgingFn ==
  \E slot \in Slots :
    \E lookup \in Lookups(SlotInputs(slot), SlotOutput(slot)) :
      /\ Running
      /\ BridgingRequest(slot, lookup)

\* SILGenModule::~SILGenModule: close top_level_code, verify it and M.
DestroyModule ==
  /\ Alive
  /\ LET sgf == DestroySILGenFunction(TopLevelSGF.sgf)
         fs == [functions EXCEPT ![1].blocks = <<sgf.insts>>]
         ok == sgf.failed = "" /\ verify(fs[1])
     IN /\ TopLevelSGF' = [live |-> FALSE, sgf |-> sgf]
        /\ functions' = [fs EXCEPT ![1].verified = ok]
        /\ aborted' = IF sgf.failed # "" THEN sgf.failed
                      ELSE IF ~ok \/ ~verifyModule(fs)
                        THEN "verification failed" ELSE ""
        /\ moduleVerified' = (ok /\ verifyModule(fs))
  /\ lastCall' = Call("~SILGenModule", "", NoRef)
  /\ result' = NoResult
  /\ UNCHANGED <<emittedFunctions, globals, bridging, lookups, requests,
                 lowered, diagnostic, steps, found>>

DestroySILGenModule == DestroyModule /\ UNCHANGED driverVars

Next ==
  \/ GetFunction
  \/ HasFunction
  \/ EmitFunction
  \/ EmitConstructor
  \/ EmitClosurePipe
  \/ EmitClosure
  \/ EmitDestructor
  \/ EmitObjCMethodThunk
  \/ EmitObjCPropertyMethodThunks
  \/ VisitPatternBindingDecl
  \/ VisitVarDecl
  \/ DestroySILGenModule

Spec == Init /\ [][Next]_vars

\* getFunction asked for references of every kind of declaration.
LinkageRefs ==
  CallRefs \cup
  {SILDeclRef("pipe"), SILDeclRef("plain"), SILDeclRef("generic"),
   SILDeclRef("structCtor"), SILDeclRefObjC("roProp", "Getter"),
   SILDeclRefKind("subscript", "Getter"),
   SILDeclRefKind("imported", "Getter"),
   getDefaultArgGenerator("classCtor", 1)}

RequestFunction ==
  \E constant \in LinkageRefs :
    /\ Running
    /\ \E s \in {getFunction(Session, constant)} :
         Commit(s, Call("getFunction", "", constant),
                [NoResult EXCEPT !.fn = s.emittedFunctions[constant]])

NextLinkage ==
  \/ RequestFunction
  \/ EmitObjCPropertyMethodThunks
  \/ DestroySILGenModule

SpecLinkage == Init /\ [][NextLinkage]_vars

\* The session seen from the bridge resolver: bridging requests between
\* the emission calls that need them.
NextBridge ==
  \/ GetBridgingFn
  \/ GetFunction
  \/ EmitFunction
  \/ EmitObjCMethodThunk
  \/ EmitObjCPropertyMethodThunks
  \/ DestroySILGenModule

SpecBridge == Init /\ [][NextBridge]_vars

(***************************************************************************)
(* SILModule::constructSIL: the driver of a session.                       *)
(***************************************************************************)
\* slice taking the whole array.
sliceAll(seq, n) == seq

\* ArrayRef::slice(n): the elements from position n on (0-based).
sliceFrom(seq, n) == SubSeq(seq, n + 1, Len(seq))

\* The declarations the first loop iterates over.
PrimaryDecls == sliceFrom(tu.Decls, tu.startElem)

\* sgm.visit(D): the visitor a top-level declaration is dispatched to.
visit(D) ==
  \E s \in {IF D \in FuncNames THEN emitFunction(Session, D) ELSE Session} :
    \E tl \in {IF D \in PatternBindings
                 THEN visitPatternBindingDecl(TopLevelSGF, D)
                 ELSE TopLevelSGF} :
      /\ functions' = [s.functions EXCEPT ![1].blocks = <<tl.sgf.insts>>]
      /\ emittedFunctions' = s.emittedFunctions
      /\ aborted' = s.aborted
      /\ lowered' = s.lowered
      /\ TopLevelSGF' = tl
      /\ globals' = IF D \in VarDecls THEN visitVarDecl(globals, D)
                    ELSE globals

\* sgm.emitExternalDefinition(def): an imported function or constructor.
emitExternalDefinition(def) ==
  \E s \in {IF def \in CtorNames THEN emitConstructor(Session, def)
             ELSE emitFunction(Session, def)} :
    /\ functions' = s.functions
    /\ emittedFunctions' = s.emittedFunctions
    /\ aborted' = s.aborted
    /\ lowered' = s.lowered
    /\ UNCHANGED <<TopLevelSGF, globals>>

Visited(pass, decl) == [pass |-> pass, decl |-> decl]

\* for (Decl *D : makeArrayRef(tu->Decls).slice(startElem)) sgm.visit(D);
VisitDecl ==
  /\ Alive
  /\ pc.i < Len(PrimaryDecls)
  /\ visit(PrimaryDecls[pc.i + 1])
  /\ visited' = Append(visited, Visited("primary", PrimaryDecls[pc.i + 1]))
  /\ pc' = [pc EXCEPT !.i = @ + 1]
  /\ lastCall' = Call("visit", PrimaryDecls[pc.i + 1], NoRef)
  /\ result' = NoResult
  /\ UNCHANGED <<moduleVerified, bridging, lookups, requests, diagnostic,
                 found, steps, tu>>

\* for (auto def : ExternalDefinitions) sgm.emitExternalDefinition(def);
EmitExternalDefinition ==
  /\ Alive
  /\ pc.i >= Len(PrimaryDecls)
  /\ pc.j < Len(tu.ExternalDefinitions)
  /\ emitExternalDefinition(tu.ExternalDefinitions[pc.j + 1])
  /\ visited' = Append(visited,
                       Visited("external", tu.ExternalDefinitions[pc.j + 1]))
  /\ pc' = [pc EXCEPT !.j = @ + 1]
  /\ lastCall' = Call("emitExternalDefinition",
                      tu.ExternalDefinitions[pc.j + 1], NoRef)
  /\ result' = NoResult
  /\ UNCHANGED <<moduleVerified, bridging, lookups, requests, diagnostic,
                 found, steps, tu>>

\* return m: sgm goes out of scope, then the caller has the module.
ReturnModule ==
  /\ pc.i >= Len(PrimaryDecls)
  /\ pc.j >= Len(tu.ExternalDefinitions)
  /\ DestroyModule
  /\ pc' = [pc EXCEPT !.returned = (aborted' = "")]
  /\ UNCHANGED <<tu, visited>>

\* constructSIL on any translation unit, with the bridging requests that
\* body emission makes along the way.
InitDriver ==
  /\ InitModule
  /\ tu \in {u \in Units : u.startElem <= Len(u.Decls)}

\* A bridging request made by the body emission of a declaration.
MaxRequests == 1
RequestCount ==
  requests["NSStringToStringFn"] + requests["StringToNSStringFn"]
    + requests["BoolToObjCBoolFn"] + requests["ObjCBoolToBoolFn"]

RequestBridgingFn ==
  \E slot \in Slots :
    \E lookup \in Lookups(SlotInputs(slot), SlotOutput(slot)) :
      /\ Alive
      /\ RequestCount < MaxRequests
      /\ BridgingRequest(slot, lookup)

NextDriver ==
  \/ VisitDecl
  \/ EmitExternalDefinition
  \/ ReturnModule
  \/ RequestBridgingFn

SpecDriver == InitDriver /\ [][NextDriver]_vars

(***************************************************************************)
(* Properties.                                                             *)
(***************************************************************************)
Registered(c) == c \in DOMAIN emittedFunctions
HasBody(c) == Registered(c) /\ functions[emittedFunctions[c]].blocks # <<>>

\* C1: a Declaration Reference maps to at most one Low-Level Function.  In
\* every step the cache keeps each registered reference on the function it
\* had, no two functions of the module carry the same mangled name, and
\* each cached function carries its reference's name; a getFunction call on
\* an unregistered reference appends exactly one declaration-only function
\* and registers it, and a getFunction call on a registered reference
\* returns the function registered before and changes neither the module
\* nor the cache.
C1_OneFunctionPerReference ==
  [][/\ \A c \in DOMAIN emittedFunctions :
          Registered(c)' /\ emittedFunctions'[c] = emittedFunctions[c]
     /\ \A i, j \in 1..Len(functions') :
          functions'[i].name = functions'[j].name => i = j
     /\ \A c \in DOMAIN emittedFunctions' :
          functions'[emittedFunctions'[c]].name = c
     /\ lastCall'.op = "getFunction" =>
          LET c == lastCall'.ref
          IN IF Registered(c)
               THEN /\ functions' = functions
                    /\ emittedFunctions' = emittedFunctions
                    /\ result'.fn = emittedFunctions[c]
               ELSE /\ functions' =
                         Append(functions, functions'[Len(functions')])
                    /\ functions'[Len(functions')].blocks = <<>>
                    /\ result'.fn = Len(functions')
                    /\ emittedFunctions'[c] = result'.fn
                    /\ DOMAIN emittedFunctions' =
                         DOMAIN emittedFunctions \cup {c}
    ]_vars

\* C1 witness: getFunction has just returned a function that already has a
\* body, i.e. one an earlier emission created and filled.
C1_Witness ==
  /\ lastCall.op = "getFunction"
  /\ HasBody(lastCall.ref)
  /\ result.fn = emittedFunctions[lastCall.ref]
  /\ steps >= 2

NonThunkOps == {"emitFunction", "emitConstructor", "emitClosurePipe",
                "emitClosure", "emitDestructor"}
ThunkOps == {"emitObjCMethodThunk", "emitObjCPropertyMethodThunks"}

\* A function of the called routine's declaration already has a body: for
\* the non-thunk routines any non-foreign reference of the declaration
\* (main entry, curry thunk, allocator, initializer, destroyer, closure,
\* default-argument generator), for the thunk routines the thunk's own
\* reference (the method thunk, the property getter thunk).
AlreadyEmitted(call) ==
  IF call.op \in NonThunkOps
    THEN \E c \in DOMAIN emittedFunctions :
           c.loc = call.decl /\ ~c.isObjC /\ HasBody(c)
    ELSE /\ call.op \in ThunkOps
         /\ HasBody(SILDeclRefObjC(
                      call.decl,
                      IF call.op = "emitObjCMethodThunk" THEN "Func"
                      ELSE "Getter"))

\* C2: re-emission is rejected.  No step changes the blocks of a cached
\* function that already has a body; a non-thunk emission routine called
\* for a declaration that already has an emitted function ends in the
\* "already emitted function?!" violation and leaves every function as it
\* was; a foreign-interop thunk routine called when its thunk already has
\* a body returns without changing the session.
C2_ReEmissionRejected ==
  [][/\ \A c \in DOMAIN emittedFunctions :
          HasBody(c) =>
            functions'[emittedFunctions[c]].blocks =
              functions[emittedFunctions[c]].blocks
     /\ (lastCall'.op \in NonThunkOps /\ AlreadyEmitted(lastCall')) =>
          /\ aborted' = "already emitted function?!"
          /\ functions' = functions
          /\ lowered' = lowered
     /\ (lastCall'.op \in ThunkOps /\ AlreadyEmitted(lastCall')) =>
          UNCHANGED <<functions, emittedFunctions, TopLevelSGF, aborted,
                      moduleVerified, globals, bridging, lookups, requests,
                      lowered, diagnostic>>
    ]_vars

\* C2 witness: a non-thunk routine was called for a declaration it had
\* emitted before and the session ended in the violation.
C2_Witness ==
  /\ aborted = "already emitted function?!"
  /\ lastCall.op \in NonThunkOps
  /\ \E c \in DOMAIN emittedFunctions : c.loc = lastCall.decl /\ HasBody(c)

\* What the AST says about the function a reference names: the emission
\* routine it belongs to, its declared result and the body it is emitted
\* from.
RoleOf(c) ==
  CASE c.isObjC                       -> "objcThunk"
    [] c.kind = "DefaultArgGenerator" -> "generator"
    [] c.kind = "Allocator"           -> "constructor"
    [] c.kind = "Initializer"         -> "constructor"
    [] c.kind = "Destroyer"           -> "destructor"
    [] c.loc = "pipe"                 -> "pipeClosure"
    [] c.loc = "brace"                -> "braceClosure"
    [] c.uncurryLevel < NaturalLevel(c.loc) -> "curryThunk"
    [] OTHER                          -> "function"

\* The defaulted parameter a generator reference stands for.
DefaultArgOf(c) ==
  IF c.loc = "generic" THEN Fld(TRUE, TRUE) ELSE Fld(TRUE, FALSE)

DeclaredVoid(c) ==
  CASE RoleOf(c) \in {"function", "curryThunk"} -> FuncExpr(c.loc).resultVoid
    [] RoleOf(c) \in {"pipeClosure", "braceClosure"} ->
         Closure(c.loc).resultVoid
    [] RoleOf(c) = "generator"   -> DefaultArgOf(c).isVoid
    [] RoleOf(c) = "constructor" -> FALSE
    [] RoleOf(c) = "destructor"  -> TRUE
    [] OTHER -> IF c.kind = "Func" THEN FuncExpr(c.loc).resultVoid
                ELSE c.kind = "Setter"

BodyOf(c) ==
  CASE RoleOf(c) = "function"   -> FuncExpr(c.loc).body
    [] RoleOf(c) = "curryThunk" -> ThunkBody
    [] RoleOf(c) \in {"pipeClosure", "braceClosure"} -> Closure(c.loc).body
    [] RoleOf(c) = "generator"  -> GeneratorBody(DefaultArgOf(c))
    [] RoleOf(c) = "constructor" ->
         IF c.kind = "Initializer" THEN Ctor(c.loc).initBody
         ELSE Ctor(c.loc).body
    [] RoleOf(c) = "destructor" -> DestructorBody
    [] OTHER                    -> ObjCThunkBody(c.loc)

\* The body of c fell off its end: it left the insertion point valid.
FallsThrough(c) == ~BodyOf(c).returns

BlockOf(c) == functions[emittedFunctions[c]].blocks[1]
LastInst(insts) == insts[Len(insts)]

\* insts ends in the synthesized return: the empty tuple, then the n
\* pending cleanups from the top of the stack down, then the return, with
\* nothing left on the stack.
SynthesizedReturn(insts, n) ==
  /\ Len(insts) >= n + 2
  /\ insts[Len(insts) - n - 1] = Inst("tuple", 0)
  /\ \A k \in 1..n : insts[Len(insts) - k] = Inst("cleanup", k)
  /\ LastInst(insts) = Inst("return", 0)
  /\ \A i \in 1..(Len(insts) - n - 2) :
       insts[i].op \notin {"tuple", "cleanup"} \cup Terminators

\* insts ends in `unreachable` and holds no return and no emitted cleanup.
SynthesizedUnreachable(insts) ==
  /\ insts # <<>>
  /\ LastInst(insts).op = "unreachable"
  /\ \A i \in 1..Len(insts) : insts[i].op \notin {"return", "tuple", "cleanup"}

\* The entry points that pass hasVoidReturn=false whatever the declared
\* result is: emitClosure(ClosureExpr*) and the foreign-interop thunks.
HardWiredNonVoid(c) == RoleOf(c) \in {"braceClosure", "objcThunk"}

C4_Original ==
  \A c \in DOMAIN emittedFunctions :
    (HasBody(c) /\ ~DeclaredVoid(c) /\ FallsThrough(c)) =>
      SynthesizedUnreachable(BlockOf(c))

\* C4 amended: a function with a non-void declared result whose body falls
\* through ends in `unreachable` and holds no synthesized return, unless it
\* is a constructor (allocator, initializer, value-type constructor):
\* those are emitted with hasVoidReturn=true and end in the synthesized
\* return of the empty value after their cleanups.
C4_NonVoidFallThroughUnreachable ==
  \A c \in DOMAIN emittedFunctions :
    (HasBody(c) /\ ~DeclaredVoid(c) /\ FallsThrough(c)) =>
      IF RoleOf(c) = "constructor"
        THEN SynthesizedReturn(BlockOf(c), BodyOf(c).cleanups)
        ELSE SynthesizedUnreachable(BlockOf(c))

\* C4 witness: the non-void function `generic`, whose body falls through,
\* was emitted and ends in `unreachable`.
C4_Witness ==
  /\ HasBody(SILDeclRef("generic"))
  /\ LastInst(BlockOf(SILDeclRef("generic"))).op = "unreachable"
  /\ ~DeclaredVoid(SILDeclRef("generic"))

\* The functions whose emission has ended: the cached functions that have
\* a body, and top_level_code once its context is destroyed.
Finished(f) ==
  \/ f = 1 /\ ~TopLevelSGF.live
  \/ f > 1 /\ functions[f].blocks # <<>>

OneTerminator(insts) ==
  /\ insts # <<>>
  /\ LastInst(insts).op \in Terminators
  /\ \A i \in 1..(Len(insts) - 1) : insts[i].op \notin Terminators

\* C5 as stated: every block of every emitted function has exactly one
\* terminator and the cleanup stack is empty at every terminator.
C5_Original ==
  \A f \in 1..Len(functions) :
    Finished(f) =>
      \A b \in 1..Len(functions[f].blocks) :
        /\ OneTerminator(functions[f].blocks[b])
        /\ LastInst(functions[f].blocks[b]).arg = 0

\* C5 amended: every block of every emitted function has exactly one
\* terminator, its last instruction, and the cleanup stack is empty at
\* every return, explicit or synthesized; the synthesized `unreachable` is
\* inserted without unwinding, so the cleanups pending at a non-void
\* fall-through are still on the stack at that terminator.
C5_OneTerminatorCleanReturn ==
  /\ \A f \in 1..Len(functions) :
       Finished(f) =>
         \A b \in 1..Len(functions[f].blocks) :
           /\ OneTerminator(functions[f].blocks[b])
           /\ LastInst(functions[f].blocks[b]).op = "return" =>
                LastInst(functions[f].blocks[b]).arg = 0
  /\ \A c \in DOMAIN emittedFunctions :
       (HasBody(c) /\ FallsThrough(c)
          /\ LastInst(BlockOf(c)).op = "unreachable") =>
         LastInst(BlockOf(c)).arg = BodyOf(c).cleanups

\* C5 witness: three emitted functions coexist, one ending in an explicit
\* return (curry3), one in the synthesized return (plain) and one in the
\* synthesized unreachable with a cleanup still pending (generic).
C5_Witness ==
  /\ HasBody(SILDeclRef("curry3"))
  /\ LastInst(BlockOf(SILDeclRef("curry3"))) = Inst("return", 0)
  /\ HasBody(SILDeclRef("generic"))
  /\ LastInst(BlockOf(SILDeclRef("generic"))) = Inst("unreachable", 1)
  /\ HasBody(SILDeclRef("plain"))
  /\ LastInst(BlockOf(SILDeclRef("plain"))) = Inst("return", 0)

\* In a step: the references postEmitFunction finished during it, and
\* those among them that are not default-argument generators.
NewlyLowered == SubSeq(lowered', Len(lowered) + 1, Len(lowered'))
IsOwn(c) == c.kind # "DefaultArgGenerator"
OwnLowered == SelectSeq(NewlyLowered, IsOwn)
NewlyCreated ==
  {functions'[f].name : f \in (Len(functions) + 1)..Len(functions')}
NewlyRegistered == DOMAIN emittedFunctions' \ DOMAIN emittedFunctions

\* In a step: the function registered under c after it.
NewFunctionOf(c) == functions'[emittedFunctions'[c]]

\* C6: a completed emitConstructor call for a class constructor finishes,
\* besides its default-argument generators, exactly two functions, the
\* allocator under the plain reference and then the initializer under the
\* Initializer-kind reference, two distinct verified functions with a
\* body; for a value-type constructor it finishes exactly one, under the
\* plain reference, and registers no Initializer-kind reference.  Every
\* function the call creates belongs to the constructor.
C6_ConstructorFunctions ==
  [][(lastCall'.op = "emitConstructor" /\ aborted' = "") =>
       LET d == lastCall'.decl
           alloc == SILDeclRef(d)
           init == SILDeclRefKind(d, "Initializer")
       IN /\ \A c \in NewlyCreated : c.loc = d
          /\ NewFunctionOf(alloc).verified /\ NewFunctionOf(alloc).blocks # <<>>
          /\ IF Ctor(d).isClass
               THEN /\ OwnLowered = <<alloc, init>>
                    /\ emittedFunctions'[alloc] # emittedFunctions'[init]
                    /\ NewFunctionOf(init).verified
                    /\ NewFunctionOf(init).blocks # <<>>
               ELSE /\ OwnLowered = <<alloc>>
                    /\ \A c \in NewlyRegistered : c.kind # "Initializer"
                    /\ \A c \in NewlyCreated : c.kind # "Initializer"
    ]_vars

\* C6 witness: both constructors were emitted, the class constructor into
\* an allocator and an initializer, the value-type constructor into one
\* function with no Initializer-kind reference registered.
C6_Witness ==
  /\ aborted = ""
  /\ HasBody(SILDeclRef("classCtor"))
  /\ HasBody(SILDeclRefKind("classCtor", "Initializer"))
  /\ HasBody(SILDeclRef("structCtor"))
  /\ ~Registered(SILDeclRefKind("structCtor", "Initializer"))

\* The position of c in a sequence without repetitions (0: absent).
IndexIn(seq, c) ==
  IF \E i \in 1..Len(seq) : seq[i] = c
    THEN CHOOSE i \in 1..Len(seq) : seq[i] = c
    ELSE 0

\* C7: within a completed emitConstructor call every default-argument
\* generator is finished before any function of the constructor itself,
\* and a generator the call creates is created before the allocator is
\* when the call creates that too; for a class the allocator is finished
\* before the initializer, which is a different function, each with one
\* block of its own.  For classCtor (two arguments, the second defaulted)
\* on a cache that holds none of its references the call creates exactly
\* three functions, in the order generator, allocator, initializer.
C7_ConstructorOrder ==
  [][(lastCall'.op = "emitConstructor" /\ aborted' = "") =>
       LET d == lastCall'.decl
           alloc == SILDeclRef(d)
           init == SILDeclRefKind(d, "Initializer")
           gen == getDefaultArgGenerator("classCtor", 1)
       IN /\ \A i, j \in 1..Len(NewlyLowered) :
               (~IsOwn(NewlyLowered[i]) /\ IsOwn(NewlyLowered[j])) => i < j
          /\ \A g \in NewlyCreated :
               (~IsOwn(g) /\ alloc \in NewlyCreated) =>
                 emittedFunctions'[g] < emittedFunctions'[alloc]
          /\ Ctor(d).isClass =>
               /\ IndexIn(NewlyLowered, alloc) < IndexIn(NewlyLowered, init)
               /\ IndexIn(NewlyLowered, alloc) > 0
               /\ emittedFunctions'[alloc] # emittedFunctions'[init]
               /\ Len(NewFunctionOf(alloc).blocks) = 1
               /\ Len(NewFunctionOf(init).blocks) = 1
          /\ d = "classCtor" =>
               /\ NewlyLowered = <<gen, alloc, init>>
               /\ (\A c \in {gen, alloc, init} : ~Registered(c)) =>
                    /\ Len(functions') = Len(functions) + 3
                    /\ functions'[Len(functions) + 1].name = gen
                    /\ functions'[Len(functions) + 2].name = alloc
                    /\ functions'[Len(functions) + 3].name = init
    ]_vars

\* C7 witness: classCtor was emitted first thing in the session: the
\* module holds top_level_code and then the generator, the allocator and
\* the initializer, finished in that order.
C7_Witness ==
  /\ aborted = ""
  /\ lastCall = Call("emitConstructor", "classCtor", NoRef)
  /\ Len(functions) = 4
  /\ lowered = <<getDefaultArgGenerator("classCtor", 1),
                 SILDeclRef("classCtor"),
                 SILDeclRefKind("classCtor", "Initializer")>>

\* A plain function gets curry thunks: it is no accessor, no instance
\* member and not generic.
Thunked(d) ==
  /\ ~FuncExpr(d).getterOrSetter
  /\ ~FuncExpr(d).instanceMember
  /\ ~FuncExpr(d).polymorphic

\* The entry points of d from its natural uncurry level n down to 0.
EntryPoints(d) ==
  [i \in 1..(NaturalLevel(d) + 1) |->
     atUncurryLevel(SILDeclRef(d), NaturalLevel(d) + 1 - i)]

\* C8: a completed emitFunction call for a function with a body that is
\* no accessor, no instance member and not generic, of uncurry level n,
\* finishes the main entry at level n and then exactly n curry thunks at
\* levels n-1, ..., 0 in that order; the thunk at level k forwards to the
\* entry point at level k+1 and the main entry forwards to nothing.
C8_CurryThunkChain ==
  [][(/\ lastCall'.op = "emitFunction" /\ aborted' = ""
      /\ FuncExpr(lastCall'.decl).hasBody /\ Thunked(lastCall'.decl)) =>
       LET d == lastCall'.decl
           n == NaturalLevel(d)
       IN /\ OwnLowered = EntryPoints(d)
          /\ Len(OwnLowered) = n + 1
          /\ \A k \in 0..n :
               LET c == atUncurryLevel(SILDeclRef(d), k)
               IN /\ NewFunctionOf(c).verified
                  /\ Len(NewFunctionOf(c).blocks) = 1
                  /\ NewFunctionOf(c).blocks[1][1] =
                       Inst("body", IF k = n THEN -1 ELSE k + 1)
    ]_vars

\* C8 witness: curry3 (three argument lists, n = 2) was emitted: the main
\* entry at level 2, then the thunk at level 1 forwarding to 2, then the
\* thunk at level 0 forwarding to 1.
C8_Witness ==
  /\ aborted = ""
  /\ lastCall = Call("emitFunction", "curry3", NoRef)
  /\ SubSeq(lowered, Len(lowered) - 2, Len(lowered)) =
       <<atUncurryLevel(SILDeclRef("curry3"), 2),
         atUncurryLevel(SILDeclRef("curry3"), 1),
         atUncurryLevel(SILDeclRef("curry3"), 0)>>
  /\ BlockOf(atUncurryLevel(SILDeclRef("curry3"), 1))[1] = Inst("body", 2)
  /\ BlockOf(atUncurryLevel(SILDeclRef("curry3"), 0))[1] = Inst("body", 1)

\* C9: a completed emitFunction call for a declaration with a body
\* finishes each function once; the functions it finishes besides
\* default-argument generators are the main entry alone when the function
\* is an accessor, an instance member, generic or of uncurry level 0, and
\* the main entry with its curry thunks otherwise; every function it
\* creates is an entry point or a generator of that declaration.  No
\* curry-thunk reference of an accessor, an instance member or a generic
\* function ever has a body.
C9_OneFunctionPerVariant ==
  [][/\ (/\ lastCall'.op = "emitFunction" /\ aborted' = ""
         /\ FuncExpr(lastCall'.decl).hasBody) =>
          LET d == lastCall'.decl
          IN /\ \A i, j \in 1..Len(NewlyLowered) :
                  NewlyLowered[i] = NewlyLowered[j] => i = j
             /\ IF Thunked(d) /\ NaturalLevel(d) > 0
                  THEN /\ Len(OwnLowered) = NaturalLevel(d) + 1
                       /\ OwnLowered[1] = SILDeclRef(d)
                  ELSE OwnLowered = <<SILDeclRef(d)>>
             /\ \A c \in NewlyCreated :
                  /\ c.loc = d
                  /\ IsOwn(c) =>
                       /\ c.kind = "Func" /\ ~c.isObjC
                       /\ c.uncurryLevel <= NaturalLevel(d)
                       /\ c.uncurryLevel < NaturalLevel(d) => Thunked(d)
     /\ \A c \in DOMAIN emittedFunctions' :
          (/\ c.loc \in FuncNames /\ c.kind = "Func" /\ ~c.isObjC
           /\ c.uncurryLevel < NaturalLevel(c.loc)
           /\ NewFunctionOf(c).blocks # <<>>) => Thunked(c.loc)
    ]_vars

\* C9 witness: the instance member `method` (uncurry level 1, one
\* defaulted parameter) was emitted: its generator and its main entry were
\* finished and no level-0 thunk exists.
C9_Witness ==
  /\ aborted = ""
  /\ lastCall = Call("emitFunction", "method", NoRef)
  /\ lowered = <<getDefaultArgGenerator("method", 1), SILDeclRef("method")>>
  /\ ~Registered(atUncurryLevel(SILDeclRef("method"), 0))

\* C10: bridging resolution is cached per slot.  Name lookup runs at most
\* once for a slot; once a slot is resolved no step changes it or runs
\* lookup for it again; a request for a resolved slot returns the cached
\* reference, emits no diagnostic and does not abort; and a request for
\* one slot leaves the other three slots and their lookup counts alone.
C10_BridgingCached ==
  [][\A slot \in Slots :
       /\ lookups'[slot] <= 1
       /\ bridging[slot] # NoRef =>
            /\ bridging'[slot] = bridging[slot]
            /\ lookups'[slot] = lookups[slot]
       /\ (lastCall'.op = "getBridgingFn" /\ lastCall'.decl = slot) =>
            /\ requests'[slot] = requests[slot] + 1
            /\ \A other \in Slots \ {slot} :
                 /\ bridging'[other] = bridging[other]
                 /\ lookups'[other] = lookups[other]
            /\ bridging[slot] # NoRef =>
                 /\ result'.ref = bridging[slot]
                 /\ aborted' = ""
                 /\ diagnostic' = diagnostic
    ]_vars

\* C10 witness: a slot was requested twice, with an emission call in the
\* same session, and lookup ran once: the second request was served from
\* the cache, while another slot is still unresolved.
C10_Witness ==
  \E slot \in Slots :
    /\ lastCall = Call("getBridgingFn", slot, NoRef)
    /\ requests[slot] = 2
    /\ lookups[slot] = 1
    /\ result.ref = bridging[slot]
    /\ result.ref # NoRef
    /\ Len(functions) > 1
    /\ \E other \in Slots : bridging[other] = NoRef

\* The foreign module and function each slot is resolved from.
SlotModule(slot) ==
  IF slot \in {"NSStringToStringFn", "StringToNSStringFn"}
    THEN "Foundation" ELSE "ObjectiveC"
SlotFunction(slot) ==
  CASE slot = "NSStringToStringFn" -> "convertNSStringToString"
    [] slot = "StringToNSStringFn" -> "convertStringToNSString"
    [] slot = "BoolToObjCBoolFn"   -> "convertBoolToObjCBool"
    [] OTHER                       -> "convertObjCBoolToBool"

\* What the lookup found is the one function of the expected signature.
Matches(l, slot) ==
  /\ l.module
  /\ l.results = 1
  /\ l.hasValueDecl /\ l.isFuncDecl
  /\ l.inputTypes = SlotInputs(slot)
  /\ l.resultType = SlotOutput(slot)

\* The diagnostic owed to a lookup that does not match, first cause first.
Reported(l) ==
  IF ~l.module THEN "bridging_module_missing"
  ELSE IF l.results = 0 THEN "bridging_function_missing"
  ELSE IF l.results > 1 THEN "bridging_function_overloaded"
  ELSE IF ~(l.hasValueDecl /\ l.isFuncDecl)
    THEN "bridging_function_not_function"
  ELSE "bridging_function_not_correct_type"

\* C11: a request for an unresolved slot runs name lookup once and succeeds
\* exactly when lookup finds the module, one candidate, a function, with
\* the expected input types and the expected result type: then the slot
\* holds the function's reference, which is returned, and nothing is
\* diagnosed.  In every other case the process exits, the slot stays
\* unresolved, and the diagnostic is the first that applies of
\* missing-module, missing-function, ambiguous-function, not-a-function,
\* signature-mismatch, carrying the module and function name of the slot.
C11_ResolveOrAbort ==
  [][\A slot \in Slots :
       (/\ lastCall'.op = "getBridgingFn" /\ lastCall'.decl = slot
        /\ bridging[slot] = NoRef) =>
         /\ lookups'[slot] = lookups[slot] + 1
         /\ IF Matches(found', slot)
              THEN /\ aborted' = ""
                   /\ bridging'[slot] = SILDeclRef(SlotFunction(slot))
                   /\ result'.ref = bridging'[slot]
                   /\ diagnostic' = diagnostic
              ELSE /\ aborted' = "exit(1)"
                   /\ bridging'[slot] = NoRef
                   /\ result'.ref = NoRef
                   /\ diagnostic' = Diag(Reported(found'), SlotModule(slot),
                                         SlotFunction(slot))
    ]_vars

\* C11 witness: after one slot was resolved, the string-to-foreign-string
\* bridge was requested and lookup found a function of two parameters
\* instead of one: the process exited with signature-mismatch and the slot
\* is unresolved.
C11_Witness ==
  /\ lastCall = Call("getBridgingFn", "StringToNSStringFn", NoRef)
  /\ Len(found.inputTypes) = 2
  /\ found.results = 1 /\ found.isFuncDecl
  /\ aborted = "exit(1)"
  /\ diagnostic = Diag("bridging_function_not_correct_type", "Foundation",
                       "convertStringToNSString")
  /\ bridging["StringToNSStringFn"] = NoRef
  /\ lookups["StringToNSStringFn"] = 1
  /\ \E other \in Slots : bridging[other] # NoRef

\* What constructSIL has to dispatch on a translation unit: the
\* declarations from startElem on, then the external definitions.
ExpectedVisits ==
  [i \in 1..(Len(tu.Decls) - tu.startElem) |->
     Visited("primary", tu.Decls[tu.startElem + i])]
  \o [j \in 1..Len(tu.ExternalDefinitions) |->
        Visited("external", tu.ExternalDefinitions[j])]

\* The module is with the caller only fully emitted and verified.
HandedOffVerified ==
  /\ aborted # "" => (~moduleVerified /\ ~pc.returned)
  /\ pc.returned => moduleVerified
  /\ moduleVerified =>
       /\ aborted = ""
       /\ visited = ExpectedVisits
       /\ ~TopLevelSGF.live
       /\ ~TopLevelSGF.sgf.valid
       /\ TopLevelSGF.sgf.insts[Len(TopLevelSGF.sgf.insts)].op
            \in Terminators
       /\ functions[1].blocks = <<TopLevelSGF.sgf.insts>>
       /\ functions[1].verified
       /\ \A f \in 1..Len(functions) : verify(functions[f])

\* C12: once the process has ended on a fatal bridging error or a failed
\* assertion nothing happens any more, neither an emission step nor a
\* bridging request nor the hand-off of the module; and the module is
\* handed on only when the session did not abort, every declaration from
\* the start element on and every external definition was dispatched,
\* top_level_code was terminated and verified and the module was verified.
C12_VerifiedModuleOrAbort ==
  [][/\ aborted # "" => UNCHANGED vars
     /\ HandedOffVerified'
    ]_vars

\* C12 witness: constructSIL returned a verified module after visiting two
\* declarations and two external definitions, a bridging request having
\* succeeded on the way.
C12_Witness ==
  /\ pc.returned /\ moduleVerified /\ aborted = ""
  /\ Len(visited) = 4
  /\ visited[2].pass = "primary" /\ visited[3].pass = "external"
  /\ RequestCount = 1
  /\ lastCall.op = "~SILGenModule"

\* The linkage owed to a reference, by the rule in its priority order.
EnclosingContexts(d) ==
  {DeclContexts(d)[i] : i \in 1..(Len(DeclContexts(d)) - 1)}
ModuleContext(d) == DeclContexts(d)[Len(DeclContexts(d))]
ExpectedLinkage(c) ==
  IF c.loc \in ClosureNames THEN "Internal"
  ELSE IF "Local" \in EnclosingContexts(c.loc) THEN "Internal"
  ELSE IF /\ ModuleContext(c.loc) = "ClangModule"
          /\ \/ c.loc \in CtorNames
             \/ c.loc \in SubscriptNames
             \/ c.loc \in PropNames
    THEN "ClangThunk"
  ELSE "External"

\* C13: every function created for a reference has the linkage the rule
\* gives that reference: internal without a declaration; else internal
\* when an enclosing context is local; else foreign-thunk for a
\* constructor, subscript or computed property of a foreign module; else
\* external.  So a plain function and a stored variable of a foreign
\* module are external, and a computed property nested in a local context
\* of a foreign module is internal.
C13_LinkageRule ==
  /\ \A f \in 2..Len(functions) :
       functions[f].linkage = ExpectedLinkage(functions[f].name)
  /\ \A c \in DOMAIN emittedFunctions :
       /\ functions[emittedFunctions[c]].name = c
       /\ c.loc \in {"plain", "imported"} =>
            functions[emittedFunctions[c]].linkage = "External"
       /\ c.loc \in {"roProp", "generic"} =>
            functions[emittedFunctions[c]].linkage = "Internal"
       /\ c.loc \in {"classCtor", "subscript", "prop"} =>
            functions[emittedFunctions[c]].linkage = "ClangThunk"

\* C13 witness: functions were created for a subscript of a foreign
\* module (foreign-thunk), a stored variable of a foreign module
\* (external) and a computed property in a local context of a foreign
\* module (internal).
C13_Witness ==
  /\ Registered(SILDeclRefKind("subscript", "Getter"))
  /\ Registered(SILDeclRefKind("imported", "Getter"))
  /\ Registered(SILDeclRefObjC("roProp", "Getter"))
  /\ functions[emittedFunctions[SILDeclRefKind("subscript", "Getter")]].linkage
       = "ClangThunk"
  /\ functions[emittedFunctions[SILDeclRefKind("imported", "Getter")]].linkage
       = "External"
  /\ functions[emittedFunctions[SILDeclRefObjC("roProp", "Getter")]].linkage
       = "Internal"

\* C14: emitting a plain function declaration that has no body creates no
\* function, adds no entry to the cache, finishes no function and leaves
\* the session as it was.
C14_PrototypeSkipped ==
  [][(/\ lastCall'.op = "emitFunction"
      /\ ~FuncExpr(lastCall'.decl).hasBody) =>
       /\ functions' = functions
       /\ emittedFunctions' = emittedFunctions
       /\ lowered' = lowered
       /\ aborted' = aborted
    ]_vars

\* In a step: the function under c was left as it was.
Untouched(c) ==
  /\ c \in DOMAIN emittedFunctions
  /\ emittedFunctions'[c] = emittedFunctions[c]
  /\ functions'[emittedFunctions[c]] = functions[emittedFunctions[c]]

\* In a step: c had no entry and now has a finished forwarding body.
Emitted(c) ==
  /\ c \notin DOMAIN emittedFunctions
  /\ c \in DOMAIN emittedFunctions'
  /\ Len(NewFunctionOf(c).blocks) = 1
  /\ NewFunctionOf(c).verified

\* C15: each foreign-interop thunk is skipped exactly when its own
\* reference already has an entry and is emitted and finished otherwise:
\* the method thunk by emitObjCMethodThunk, the getter thunk and, for a
\* settable property, the setter thunk by emitObjCPropertyMethodThunks,
\* the setter by its own entry and not by the getter's.  A second call for
\* the same declaration changes no function.
C15_ThunksIdempotent ==
  [][/\ (lastCall'.op = "emitObjCMethodThunk" /\ aborted' = "") =>
          LET thunk == SILDeclRefObjC(lastCall'.decl, "Func")
          IN IF thunk \in DOMAIN emittedFunctions
               THEN functions' = functions
               ELSE Emitted(thunk)
     /\ (lastCall'.op = "emitObjCPropertyMethodThunks" /\ aborted' = "") =>
          LET getter == SILDeclRefObjC(lastCall'.decl, "Getter")
              setter == SILDeclRefObjC(lastCall'.decl, "Setter")
          IN /\ IF getter \in DOMAIN emittedFunctions
                  THEN Untouched(getter) ELSE Emitted(getter)
             /\ IF setter \in DOMAIN emittedFunctions
                  THEN Untouched(setter)
                  ELSE IF isSettable(lastCall'.decl)
                    THEN Emitted(setter)
                    ELSE setter \notin DOMAIN emittedFunctions'
             /\ (lastCall.op = "emitObjCPropertyMethodThunks"
                 /\ lastCall.decl = lastCall'.decl) =>
                  functions' = functions
    ]_vars

\* C16: a top-level pattern binding visited after top_level_code was
\* terminated emits nothing and changes nothing; visited while the
\* insertion point is valid, its initializer is appended to what
\* top_level_code holds, so bindings appear in the order visited; the
\* builder of top_level_code is never inserted into while invalid.
C16_TopLevelWhileValid ==
  [][lastCall'.op = "visitPatternBindingDecl" =>
       LET insts == TopLevelSGF.sgf.insts
           pd == PatternBindingDecl(lastCall'.decl)
       IN /\ TopLevelSGF'.sgf.failed = ""
          /\ functions'[1].blocks = <<TopLevelSGF'.sgf.insts>>
          /\ IF ~TopLevelSGF.sgf.valid
               THEN /\ TopLevelSGF' = TopLevelSGF
                    /\ functions' = functions
                    /\ UNCHANGED <<emittedFunctions, aborted, globals,
                                   lowered, moduleVerified>>
               ELSE /\ Len(TopLevelSGF'.sgf.insts) > Len(insts)
                    /\ SubSeq(TopLevelSGF'.sgf.insts, 1, Len(insts)) = insts
                    /\ TopLevelSGF'.sgf.insts[Len(insts) + 1] =
                         Inst("init", pd.id)
                    /\ \A i \in (Len(insts) + 2)..Len(TopLevelSGF'.sgf.insts) :
                         TopLevelSGF'.sgf.insts[i].op # "init"
    ]_vars

\* C16 witness: binding b was emitted, binding `never` ended
\* top_level_code with a terminator, and binding a, visited afterwards,
\* left no instruction.
C16_Witness ==
  /\ lastCall = Call("visitPatternBindingDecl", "a", NoRef)
  /\ ~TopLevelSGF.sgf.valid
  /\ TopLevelSGF.sgf.insts =
       <<Inst("init", 2), Inst("init", 3), Inst("unreachable", 0)>>
  /\ functions[1].blocks = <<TopLevelSGF.sgf.insts>>

\* The position at which a declaration was first dispatched (0: never).
FirstVisit(d) ==
  IF \E i \in 1..Len(visited) : visited[i].decl = d
    THEN CHOOSE i \in 1..Len(visited) :
           /\ visited[i].decl = d
           /\ \A k \in 1..(i - 1) : visited[k].decl # d
    ELSE 0

\* C17: what constructSIL has dispatched so far is always an initial part
\* of: the declarations from the start element on in source order, then
\* the external definitions in the order supplied.  So no external
\* definition comes before or between the primary declarations and no
\* declaration before the start element is visited; the functions
\* finished follow the order of dispatch, and when the module is returned
\* everything was dispatched.
C17_DriverOrder ==
  /\ Len(visited) <= Len(ExpectedVisits)
  /\ visited = SubSeq(ExpectedVisits, 1, Len(visited))
  /\ \A i, k \in 1..Len(visited) :
       (visited[i].pass = "external" /\ visited[k].pass = "primary") => k < i
  /\ \A i, k \in 1..Len(lowered) :
       /\ FirstVisit(lowered[i].loc) > 0
       /\ i < k => FirstVisit(lowered[i].loc) <= FirstVisit(lowered[k].loc)
  /\ pc.returned => visited = ExpectedVisits

\* C17 witness: on a unit of two declarations with start element 1 and
\* two external definitions, constructSIL returned after visiting the
\* second declaration and then both external definitions in their order.
C17_Witness ==
  /\ pc.returned
  /\ tu.startElem = 1
  /\ tu.Decls = <<"never", "curry3">>
  /\ visited = <<Visited("primary", "curry3"),
                 Visited("external", "classCtor"),
                 Visited("external", "plain")>>
  /\ lowered[1].loc = "curry3"
  /\ lowered[Len(lowered)].loc = "plain"

\* The parameter patterns a declaration's generators are counted over.
CountedPatterns(d) ==
  IF d \in CtorNames THEN Ctor(d).arguments
  ELSE IF DeclContexts(d)[1] = "Type" THEN Tail(FuncExpr(d).patterns)
  ELSE FuncExpr(d).patterns

\* The index positions a pattern contributes, and those before pattern p.
Width(pattern) == IF pattern.isTuple THEN Len(pattern.fields) ELSE 1
RECURSIVE Preceding(_, _)
Preceding(patterns, p) ==
  IF p = 1 THEN 0
  ELSE Preceding(patterns, p - 1) + Width(patterns[p - 1])

\* The defaulted parameters of d, as pattern and field positions.
Defaulted(d) ==
  {pf \in (1..Len(CountedPatterns(d))) \X (1..3) :
     /\ CountedPatterns(d)[pf[1]].isTuple
     /\ pf[2] <= Len(CountedPatterns(d)[pf[1]].fields)
     /\ CountedPatterns(d)[pf[1]].fields[pf[2]].hasInit}
FlatIndex(d, pf) == Preceding(CountedPatterns(d), pf[1]) + pf[2] - 1

NewGenerators == SelectSeq(NewlyLowered, LAMBDA c : ~IsOwn(c))

\* C18: a completed emitFunction or emitConstructor call finishes one
\* default-argument generator per defaulted parameter of the declaration,
\* in parameter order, each under the reference whose index is the number
\* of index positions before the parameter: one per field of every tuple
\* pattern and one per other pattern, counted without the leading self
\* pattern for a function in a type context and from the first pattern
\* for a constructor.  The generators of one declaration have pairwise
\* different references.
C18_FlattenedIndex ==
  [][(lastCall'.op \in {"emitFunction", "emitConstructor"}
      /\ aborted' = "") =>
       LET d == lastCall'.decl
       IN /\ Len(NewGenerators) = Cardinality(Defaulted(d))
          /\ {NewGenerators[i] : i \in 1..Len(NewGenerators)} =
               {getDefaultArgGenerator(d, FlatIndex(d, pf)) :
                  pf \in Defaulted(d)}
          /\ \A i, k \in 1..Len(NewGenerators) :
               i < k => NewGenerators[i].defaultArgIndex
                          < NewGenerators[k].defaultArgIndex
          /\ \A i \in 1..Len(NewGenerators) :
               /\ NewFunctionOf(NewGenerators[i]).verified
               /\ NewFunctionOf(NewGenerators[i]).name = NewGenerators[i]
    ]_vars

\* C18 witness: `generic` (patterns: one non-tuple, then a tuple whose
\* first and third fields are defaulted) got generators 1 and 3, and
\* `method` (self dropped, second field of the tuple defaulted) got
\* generator 1.
C18_Witness ==
  /\ aborted = ""
  /\ lowered = <<getDefaultArgGenerator("generic", 1),
                 getDefaultArgGenerator("generic", 3),
                 SILDeclRef("generic"),
                 getDefaultArgGenerator("method", 1),
                 SILDeclRef("method")>>

\* C19: every function an emission routine has finished went through the
\* protocol: it is registered in the cache under its reference, carries a
\* debug scope and a location, has one block that ends in its only
\* terminator (the emission context was torn down before finalize), and
\* was verified; it was finalized once.  Finalize on a bare declaration
\* fails fatally.  While the session has not aborted every function with
\* a body except top_level_code was finalized, and no routine ends in a
\* failed verification or without a body.
C19_EmissionProtocol ==
  /\ \A i \in 1..Len(lowered) :
       LET c == lowered[i]
       IN /\ Registered(c)
          /\ functions[emittedFunctions[c]].name = c
          /\ functions[emittedFunctions[c]].debugScope # "none"
          /\ functions[emittedFunctions[c]].location # "none"
          /\ Len(BlockOf(c)) > 0
          /\ Len(functions[emittedFunctions[c]].blocks) = 1
          /\ OneTerminator(BlockOf(c))
          /\ functions[emittedFunctions[c]].verified
          /\ \A k \in 1..Len(lowered) : lowered[k] = c => k = i
  /\ \A c \in DOMAIN emittedFunctions :
       /\ (aborted = "" /\ HasBody(c)) =>
            \E i \in 1..Len(lowered) : lowered[i] = c
       /\ (aborted = "" /\ ~HasBody(c)) =>
            /\ ~functions[emittedFunctions[c]].verified
            /\ postEmitFunction(Session, c).aborted =
                 "did not emit any function body?!"
  /\ aborted \notin {"verification failed",
                     "did not emit any function body?!"}

\* C19 witness: a destructor and a function with a defaulted parameter
\* were emitted, three functions finished in all, while a reference
\* obtained before is still a bare declaration.
C19_Witness ==
  /\ aborted = ""
  /\ Len(lowered) = 3
  /\ \E i \in 1..3 : lowered[i].kind = "Destroyer"
  /\ \E i \in 1..3 : lowered[i].kind = "DefaultArgGenerator"
  /\ \E c \in DOMAIN emittedFunctions : ~HasBody(c)

\* The cleanups pending in top_level_code.
TopLevelPending == Len(TopLevelSGF.sgf.Cleanups)

\* C20: the module's first function is top_level_code, the only function
\* of that name, created with internal linkage and built by a context
\* with hasVoidReturn = true; no cache entry leads to it, so getFunction
\* never returns it and hasFunction never reports it.  When the session
\* ends, a still valid insertion point receives the empty tuple, the
\* pending cleanups from the top of the stack down and the return, and an
\* invalid one receives nothing; a verified module has a verified
\* top_level_code.
C20_TopLevelFunction ==
  [][/\ functions'[1].name = TopLevelName
     /\ functions'[1].linkage = "Internal"
     /\ \A f \in 2..Len(functions') : functions'[f].name # TopLevelName
     /\ TopLevelSGF'.sgf.hasVoidReturn
     /\ \A c \in DOMAIN emittedFunctions' :
          emittedFunctions'[c] # 1 /\ c # TopLevelName
     /\ result'.fn # 1
     /\ ~hasFunction(Session, TopLevelName)
     /\ moduleVerified' => functions'[1].verified
     /\ lastCall'.op = "~SILGenModule" =>
          LET insts == TopLevelSGF.sgf.insts
              after == TopLevelSGF'.sgf.insts
              n == TopLevelPending
          IN /\ functions'[1].blocks = <<after>>
             /\ IF TopLevelSGF.sgf.valid
                  THEN /\ Len(after) = Len(insts) + n + 2
                       /\ SubSeq(after, 1, Len(insts)) = insts
                       /\ after[Len(insts) + 1] = Inst("tuple", 0)
                       /\ \A k \in 1..n :
                            after[Len(after) - k] = Inst("cleanup", k)
                       /\ after[Len(after)] = Inst("return", 0)
                       /\ TopLevelSGF'.sgf.Cleanups = <<>>
                  ELSE after = insts
    ]_vars

\* C20 witness: the session ended after bindings a and b were emitted into
\* top_level_code: the cleanup a left pending was emitted before the
\* synthesized return, and the module was verified.
C20_Witness ==
  /\ lastCall.op = "~SILGenModule"
  /\ moduleVerified
  /\ functions[1].verified
  /\ functions[1].blocks =
       << <<Inst("init", 1), Inst("init", 2), Inst("tuple", 0),
            Inst("cleanup", 1), Inst("return", 0)>> >>
  /\ Len(functions) > 1

\* C21: after emitObjCMethodThunk, or emitObjCPropertyMethodThunks for the
\* getter thunk, has returned without aborting, the function cached under
\* the thunk's reference has a body, whatever getFunction, hasFunction and
\* emission calls came before, also when the reference was registered
\* before only by getFunction as a bare declaration.
C21_ThunkHasBody ==
  (lastCall.op \in ThunkOps /\ aborted = "") =>
    HasBody(SILDeclRefObjC(lastCall.decl,
                           IF lastCall.op = "emitObjCMethodThunk"
                             THEN "Func" ELSE "Getter"))

====
